---- MODULE Spec2Model ----
(***************************************************************************)
(* ssrf-agent-guard: the host validator (lib/utils.ts, lib/types.ts) and   *)
(* the connection interceptor (index.ts: ssrfAgentGuard) as a state        *)
(* machine.  Hostnames, addresses and messages are strings; JavaScript     *)
(* `undefined` is the string "undefined" in option fields.                 *)
(***************************************************************************)
EXTENDS Integers, Sequences, FiniteSets, TLC

(***************************************************************************)
(* Bounds of the model.                                                    *)
(***************************************************************************)
MaxAgents == 2
MaxConns == 2
MaxLookups == 2
MaxAddrs == 2
MaxOps == 4

Undefined == "undefined"

(***************************************************************************)
(* String primitives of the JavaScript runtime used by lib/utils.ts.       *)
(***************************************************************************)
UpperChars == <<"A", "B", "C", "D", "E", "F", "G", "H", "I", "J", "K", "L", "M",
                "N", "O", "P", "Q", "R", "S", "T", "U", "V", "W", "X", "Y", "Z">>

LowerChars == <<"a", "b", "c", "d", "e", "f", "g", "h", "i", "j", "k", "l", "m",
                "n", "o", "p", "q", "r", "s", "t", "u", "v", "w", "x", "y", "z">>

CharAt(s, i) == SubSeq(s, i, i)

LowerChar(c) ==
    IF \E k \in 1..26 : UpperChars[k] = c
    THEN LowerChars[CHOOSE k \in 1..26 : UpperChars[k] = c]
    ELSE c

RECURSIVE toLowerCaseFrom(_, _)
toLowerCaseFrom(s, i) ==
    IF i > Len(s) THEN "" ELSE LowerChar(CharAt(s, i)) \o toLowerCaseFrom(s, i + 1)

toLowerCase(s) == toLowerCaseFrom(s, 1)

startsWith(s, prefix) ==
    /\ Len(s) >= Len(prefix)
    /\ SubSeq(s, 1, Len(prefix)) = prefix

endsWith(s, suffix) ==
    /\ Len(s) >= Len(suffix)
    /\ SubSeq(s, Len(s) - Len(suffix) + 1, Len(s)) = suffix

slice(s, n) == SubSeq(s, n + 1, Len(s))

(* s.split('.'): the sequence of dot-separated parts, never empty. *)
RECURSIVE splitFrom(_, _, _)
splitFrom(s, i, cur) ==
    IF i > Len(s) THEN <<cur>>
    ELSE IF CharAt(s, i) = "." THEN <<cur>> \o splitFrom(s, i + 1, "")
    ELSE splitFrom(s, i + 1, cur \o CharAt(s, i))

split(s) == splitFrom(s, 1, "")

includes(list, x) == \E k \in 1..Len(list) : list[k] = x

(***************************************************************************)
(* ipaddr.js as used by isIp and isPublicIp: validity and range of the     *)
(* literals of the model's universe.  Any other string is not an IP.       *)
(***************************************************************************)
IpRanges ==
    << <<"8.8.8.8", "unicast">>,
       <<"1.1.1.1", "unicast">>,
       <<"168.63.129.16", "unicast">>,
       <<"2001:4860:4860::8888", "unicast">>,
       <<"10.0.0.1", "private">>,
       <<"192.168.1.1", "private">>,
       <<"127.0.0.1", "loopback">>,
       <<"169.254.1.1", "linkLocal">>,
       <<"169.254.169.254", "linkLocal">>,
       <<"169.254.169.253", "linkLocal">>,
       <<"169.254.170.2", "linkLocal">>,
       <<"169.254.0.0", "linkLocal">>,
       <<"100.100.100.200", "carrierGradeNat">>,
       <<"0.0.0.0", "unspecified">>,
       <<"::1", "loopback">>,
       <<"fe80::1", "linkLocal">>,
       <<"fc00::1", "uniqueLocal">> >>

isIp(input) == \E k \in 1..Len(IpRanges) : IpRanges[k][1] = input

range(ip) == IpRanges[CHOOSE k \in 1..Len(IpRanges) : IpRanges[k][1] = ip][2]

(* An isPublicIp that only rejects the 'private' range. *)
isPublicIp_notPrivate(ip) == range(ip) # "private"

isPublicIp(ip) == range(ip) = "unicast"

(***************************************************************************)
(* is-valid-domain with {allowUnicode: false, subdomain: true}: at least   *)
(* two labels, every label non-empty, made of letters, digits and '-'      *)
(* ('_' too outside the last label), not starting or ending with '-', and  *)
(* a last label that is not all digits.                                    *)
(***************************************************************************)
Digits == <<"0", "1", "2", "3", "4", "5", "6", "7", "8", "9">>

IsDigit(c) == \E k \in 1..10 : Digits[k] = c

IsLetter(c) == \E k \in 1..26 : LowerChars[k] = c

LabelOk(label, isLast) ==
    /\ Len(label) > 0
    /\ Len(label) < 64
    /\ \A i \in 1..Len(label) :
          \/ IsLetter(CharAt(label, i))
          \/ IsDigit(CharAt(label, i))
          \/ CharAt(label, i) = "-"
          \/ (~isLast /\ CharAt(label, i) = "_")
    /\ CharAt(label, 1) # "-"
    /\ CharAt(label, Len(label)) # "-"
    /\ isLast => \E i \in 1..Len(label) : ~IsDigit(CharAt(label, i))

isValidDomain(hostname) ==
    LET lower == toLowerCase(hostname)
        value == IF endsWith(lower, ".") THEN SubSeq(lower, 1, Len(lower) - 1) ELSE lower
        labels == split(value)
    IN  /\ Len(value) <= 253
        /\ Len(labels) > 1
        /\ \A k \in 1..Len(labels) : LabelOk(labels[k], k = Len(labels))

(***************************************************************************)
(* lib/types.ts                                                            *)
(***************************************************************************)
BlockReason ==
    {"private_ip", "cloud_metadata", "invalid_domain", "dns_rebinding",
     "denied_domain", "denied_tld", "not_allowed_domain"}

CLOUD_METADATA_HOSTS ==
    {"169.254.169.254", "169.254.169.253", "metadata.google.internal", "metadata.goog",
     "168.63.129.16", "169.254.170.2", "kubernetes.default", "kubernetes.default.svc",
     "kubernetes.default.svc.cluster.local", "100.100.100.200", "169.254.0.0"}

(* ValidationResult: reason is Undefined when the result carries none. *)
Safe == [safe |-> TRUE, reason |-> Undefined]

(* An unsafe result that drops its reason. *)
Unsafe_noReason(reason) == [safe |-> FALSE, reason |-> Undefined]

Unsafe(reason) == [safe |-> FALSE, reason |-> reason]

(***************************************************************************)
(* lib/utils.ts                                                            *)
(***************************************************************************)
(* A getTLD that keeps the letter case of the hostname. *)
getTLD_caseSensitive(hostname) ==
    LET parts == split(hostname)
    IN  IF Len(parts) > 0 THEN parts[Len(parts)] ELSE ""

getTLD(hostname) ==
    LET parts == split(toLowerCase(hostname))
    IN  IF Len(parts) > 0 THEN parts[Len(parts)] ELSE ""

(* A matchesDomain whose subdomain match ignores the label boundary. *)
matchesDomain_suffix(hostname, pattern) ==
    LET normalizedHost == toLowerCase(hostname)
        normalizedPattern == toLowerCase(pattern)
    IN  IF normalizedHost = normalizedPattern THEN TRUE
        ELSE IF startsWith(normalizedPattern, "*.")
        THEN LET baseDomain == slice(normalizedPattern, 2)
             IN  endsWith(normalizedHost, "." \o baseDomain) \/ normalizedHost = baseDomain
        ELSE endsWith(normalizedHost, normalizedPattern)

matchesDomain(hostname, pattern) ==
    LET normalizedHost == toLowerCase(hostname)
        normalizedPattern == toLowerCase(pattern)
    IN  IF normalizedHost = normalizedPattern THEN TRUE
        ELSE IF startsWith(normalizedPattern, "*.")
        THEN LET baseDomain == slice(normalizedPattern, 2)
             IN  endsWith(normalizedHost, "." \o baseDomain) \/ normalizedHost = baseDomain
        ELSE endsWith(normalizedHost, "." \o normalizedPattern)

matchesAnyDomain(hostname, domains) ==
    \E k \in 1..Len(domains) : matchesDomain(hostname, domains[k])

(* A policy is a record; defined = FALSE is an absent policy, and an absent *)
(* list is the empty sequence (the code treats both alike).                *)
NoPolicy == [defined |-> FALSE, allowDomains |-> <<>>, denyDomains |-> <<>>, denyTLD |-> <<>>]

(* A validatePolicy that consults the deny lists before the allowlist. *)
validatePolicy_denyFirst(hostname, policy) ==
    IF ~policy.defined THEN Safe
    ELSE IF Len(policy.denyDomains) > 0 /\ matchesAnyDomain(hostname, policy.denyDomains)
    THEN Unsafe("denied_domain")
    ELSE IF /\ Len(policy.denyTLD) > 0
            /\ includes([k \in 1..Len(policy.denyTLD) |-> toLowerCase(policy.denyTLD[k])],
                        getTLD(hostname))
    THEN Unsafe("denied_tld")
    ELSE IF Len(policy.allowDomains) > 0
    THEN IF matchesAnyDomain(hostname, policy.allowDomains)
         THEN Safe
         ELSE Unsafe("not_allowed_domain")
    ELSE Safe

(* A validatePolicy that checks denyTLD before denyDomains. *)
validatePolicy_tldFirst(hostname, policy) ==
    IF ~policy.defined THEN Safe
    ELSE IF Len(policy.allowDomains) > 0
    THEN IF matchesAnyDomain(hostname, policy.allowDomains)
         THEN Safe
         ELSE Unsafe("not_allowed_domain")
    ELSE IF /\ Len(policy.denyTLD) > 0
            /\ includes([k \in 1..Len(policy.denyTLD) |-> toLowerCase(policy.denyTLD[k])],
                        getTLD(hostname))
    THEN Unsafe("denied_tld")
    ELSE IF Len(policy.denyDomains) > 0 /\ matchesAnyDomain(hostname, policy.denyDomains)
    THEN Unsafe("denied_domain")
    ELSE Safe

validatePolicy(hostname, policy) ==
    IF ~policy.defined THEN Safe
    ELSE IF Len(policy.allowDomains) > 0
    THEN IF matchesAnyDomain(hostname, policy.allowDomains)
         THEN Safe
         ELSE Unsafe("not_allowed_domain")
    ELSE IF Len(policy.denyDomains) > 0 /\ matchesAnyDomain(hostname, policy.denyDomains)
    THEN Unsafe("denied_domain")
    ELSE IF /\ Len(policy.denyTLD) > 0
            /\ includes([k \in 1..Len(policy.denyTLD) |-> toLowerCase(policy.denyTLD[k])],
                        getTLD(hostname))
    THEN Unsafe("denied_tld")
    ELSE Safe

isCloudMetadata(hostname, customHosts) ==
    IF hostname \in CLOUD_METADATA_HOSTS THEN TRUE
    ELSE IF includes(customHosts, hostname) THEN TRUE
    ELSE FALSE

(* A validateHost that blocks metadata hosts whatever the option says. *)
validateHost_alwaysMetadata(hostname, options) ==
    IF isCloudMetadata(hostname, options.metadataHosts)
    THEN Unsafe("cloud_metadata")
    ELSE IF ~isIp(hostname) /\ ~validatePolicy(hostname, options.policy).safe
    THEN validatePolicy(hostname, options.policy)
    ELSE IF isIp(hostname)
    THEN IF ~isPublicIp(hostname) THEN Unsafe("private_ip") ELSE Safe
    ELSE IF ~isValidDomain(hostname)
    THEN Unsafe("invalid_domain")
    ELSE Safe

(* A validateHost that checks the domain syntax before the policy. *)
validateHost_syntaxFirst(hostname, options) ==
    LET blockCloudMetadata == options.blockCloudMetadata # "false"
    IN  IF blockCloudMetadata /\ isCloudMetadata(hostname, options.metadataHosts)
        THEN Unsafe("cloud_metadata")
        ELSE IF isIp(hostname)
        THEN IF ~isPublicIp(hostname) THEN Unsafe("private_ip") ELSE Safe
        ELSE IF ~isValidDomain(hostname)
        THEN Unsafe("invalid_domain")
        ELSE IF ~validatePolicy(hostname, options.policy).safe
        THEN validatePolicy(hostname, options.policy)
        ELSE Safe

(* A validateHost that applies the policy to IP literals too. *)
validateHost_policyForIps(hostname, options) ==
    LET blockCloudMetadata == options.blockCloudMetadata # "false"
    IN  IF blockCloudMetadata /\ isCloudMetadata(hostname, options.metadataHosts)
        THEN Unsafe("cloud_metadata")
        ELSE IF ~validatePolicy(hostname, options.policy).safe
        THEN validatePolicy(hostname, options.policy)
        ELSE IF isIp(hostname)
        THEN IF ~isPublicIp(hostname) THEN Unsafe("private_ip") ELSE Safe
        ELSE IF ~isValidDomain(hostname)
        THEN Unsafe("invalid_domain")
        ELSE Safe

(* A validateHost that applies the policy before the metadata check. *)
validateHost_policyFirst(hostname, options) ==
    LET blockCloudMetadata == options.blockCloudMetadata # "false"
    IN  IF ~isIp(hostname) /\ ~validatePolicy(hostname, options.policy).safe
        THEN validatePolicy(hostname, options.policy)
        ELSE IF blockCloudMetadata /\ isCloudMetadata(hostname, options.metadataHosts)
        THEN Unsafe("cloud_metadata")
        ELSE IF isIp(hostname)
        THEN IF ~isPublicIp(hostname) THEN Unsafe("private_ip") ELSE Safe
        ELSE IF ~isValidDomain(hostname)
        THEN Unsafe("invalid_domain")
        ELSE Safe

validateHost(hostname, options) ==
    LET blockCloudMetadata == options.blockCloudMetadata # "false"
    IN  IF blockCloudMetadata /\ isCloudMetadata(hostname, options.metadataHosts)
        THEN Unsafe("cloud_metadata")
        ELSE IF ~isIp(hostname) /\ ~validatePolicy(hostname, options.policy).safe
        THEN validatePolicy(hostname, options.policy)
        ELSE IF isIp(hostname)
        THEN IF ~isPublicIp(hostname) THEN Unsafe("private_ip") ELSE Safe
        ELSE IF ~isValidDomain(hostname)
        THEN Unsafe("invalid_domain")
        ELSE Safe

(***************************************************************************)
(* Inputs.                                                                 *)
(***************************************************************************)
DenyPolicy ==
    [defined |-> TRUE, allowDomains |-> <<>>, denyDomains |-> <<"evil.com">>,
     denyTLD |-> <<>>]

GuardOptions ==
    [mode : {Undefined, "block", "report", "allow"},
     detectDnsRebinding : {Undefined, "true", "false"},
     logger : {Undefined, "fn"},
     policy : {DenyPolicy},
     blockCloudMetadata : {Undefined},
     metadataHosts : {<<>>},
     protocol : {Undefined}]

Urls == {"http://example.com"}

(* connectionOptions.host: absent, a public domain, a denied domain, an IP. *)
Hosts == {Undefined, "example.com", "api.evil.com", "10.0.0.1"}

(* Resolved addresses; "" stands for an empty (falsy) entry. *)
Addrs == {"8.8.8.8", "127.0.0.1", "169.254.169.254", ""}

AddrLists == UNION {[1..n -> Addrs] : n \in 1..MaxAddrs}

(* resolvedAddress: one string, or an array of strings. *)
ResolvedAddresses ==
    {[array |-> FALSE, items |-> <<a>>] : a \in Addrs}
        \cup {[array |-> TRUE, items |-> l] : l \in AddrLists}

(* 'lookup' (err, resolvedAddress): a resolution, or an error with whatever *)
(* single value accompanies it.                                            *)
Notifications ==
    {[err |-> "null", resolvedAddress |-> r] : r \in ResolvedAddresses}
        \cup {[err |-> "Error", resolvedAddress |-> [array |-> FALSE, items |-> <<a>>]] :
                 a \in Addrs}

(* What the underlying createConnection returns: a socket, or null. *)
Returns == {"socket", "null"}

(* The hostname of a createConnection call: connectionOptions.host || '' *)
hostnameOf(host) == IF host = Undefined \/ host = "" THEN "" ELSE host

AllowPolicy ==
    [defined |-> TRUE, allowDomains |-> <<"example.com", "metadata.google.internal">>,
     denyDomains |-> <<>>, denyTLD |-> <<>>]

DenyMetadataPolicy ==
    [defined |-> TRUE, allowDomains |-> <<>>,
     denyDomains |-> <<"google.internal", "evil.com">>, denyTLD |-> <<"default", "meta">>]

ValidatorHosts ==
    {IpRanges[k][1] : k \in 1..Len(IpRanges)}
        \cup {"example.com", "api.evil.com", "metadata.google.internal", "metadata.goog",
              "Metadata.Google.Internal", "kubernetes.default", "custom.meta",
              "localhost", ""}

ValidatorOptions ==
    [mode : {Undefined},
     detectDnsRebinding : {Undefined},
     logger : {Undefined},
     policy : {NoPolicy, DenyPolicy, AllowPolicy, DenyMetadataPolicy},
     blockCloudMetadata : {Undefined, "true", "false"},
     metadataHosts : {<<>>, <<"custom.meta", "8.8.8.8">>},
     protocol : {Undefined}]

(* Options of a guarded agent with every validator setting. *)
ConnectOptions ==
    [mode : {Undefined, "block", "report"},
     detectDnsRebinding : {Undefined},
     logger : {Undefined, "fn"},
     policy : {NoPolicy, DenyPolicy, AllowPolicy, DenyMetadataPolicy},
     blockCloudMetadata : {Undefined, "true", "false"},
     metadataHosts : {<<>>, <<"custom.meta", "8.8.8.8">>},
     protocol : {Undefined}]

(* validateHost on every hostname and address the interceptor can pass it, *)
(* evaluated once.                                                         *)
validateHostOf ==
    [h \in {hostnameOf(x) : x \in Hosts} \cup Addrs \cup ValidatorHosts,
     o \in GuardOptions \cup ConnectOptions
        |-> validateHost(h, o)] @@ <<>>

(***************************************************************************)
(* index.ts: the helpers of the interceptor.                               *)
(***************************************************************************)

(* createAgent: the protocol family of the new agent. *)
(* A createAgent that looks at the url only. *)
createAgentFamily_urlOnly(url, options) ==
    IF startsWith(url, "https") THEN "https" ELSE "http"

createAgentFamily(url, options) ==
    LET protocol == IF options.protocol # Undefined /\ options.protocol # ""
                    THEN options.protocol ELSE url
    IN  IF startsWith(protocol, "https") THEN "https" ELSE "http"

(* A createAgent that hands out one shared agent instead of a new one. *)
createAgent_shared(url, options, existing) ==
    IF Len(existing) = 0 THEN Len(existing) + 1 ELSE 1

(* createAgent: the identity of the agent it returns; `new` allocates one. *)
createAgent(url, options, existing) == Len(existing) + 1

(* BlockEvent without its wall-clock timestamp. *)
createBlockEvent(url, reason, ip, hostname) ==
    [url |-> url, reason |-> reason, ip |-> ip, hostname |-> hostname]

(* A handleBlock that logs but never asks for an abort. *)
handleBlock_neverAborts(options, url, reason, ip, hostname) ==
    LET mode == IF options.mode = Undefined THEN "block" ELSE options.mode
        event == createBlockEvent(url, reason, ip, hostname)
    IN  [abort |-> FALSE,
         logged |->
            IF options.logger = Undefined THEN <<>>
            ELSE IF mode = "block"
            THEN << [level |-> "error", msg |-> "SSRF blocked: " \o reason, event |-> event] >>
            ELSE IF mode = "report"
            THEN << [level |-> "warn", msg |-> "SSRF detected (report mode): " \o reason,
                     event |-> event] >>
            ELSE <<>>]

(* A handleBlock that asks for an abort in report mode too. *)
handleBlock_reportAborts(options, url, reason, ip, hostname) ==
    LET mode == IF options.mode = Undefined THEN "block" ELSE options.mode
        event == createBlockEvent(url, reason, ip, hostname)
    IN  [abort |-> mode = "block" \/ mode = "report",
         logged |->
            IF options.logger = Undefined THEN <<>>
            ELSE IF mode = "block"
            THEN << [level |-> "error", msg |-> "SSRF blocked: " \o reason, event |-> event] >>
            ELSE IF mode = "report"
            THEN << [level |-> "warn", msg |-> "SSRF detected (report mode): " \o reason,
                     event |-> event] >>
            ELSE <<>>]

(* A handleBlock whose abort decision depends on the logger. *)
handleBlock_needsLogger(options, url, reason, ip, hostname) ==
    LET mode == IF options.mode = Undefined THEN "block" ELSE options.mode
        event == createBlockEvent(url, reason, ip, hostname)
    IN  [abort |-> mode = "block" /\ options.logger # Undefined,
         logged |->
            IF options.logger = Undefined THEN <<>>
            ELSE IF mode = "block"
            THEN << [level |-> "error", msg |-> "SSRF blocked: " \o reason, event |-> event] >>
            ELSE IF mode = "report"
            THEN << [level |-> "warn", msg |-> "SSRF detected (report mode): " \o reason,
                     event |-> event] >>
            ELSE <<>>]

(* handleBlock: the abort decision and the logger calls it makes. *)
handleBlock(options, url, reason, ip, hostname) ==
    LET mode == IF options.mode = Undefined THEN "block" ELSE options.mode
        event == createBlockEvent(url, reason, ip, hostname)
    IN  [abort |-> mode = "block",
         logged |->
            IF options.logger = Undefined THEN <<>>
            ELSE IF mode = "block"
            THEN << [level |-> "error", msg |-> "SSRF blocked: " \o reason, event |-> event] >>
            ELSE IF mode = "report"
            THEN << [level |-> "warn", msg |-> "SSRF detected (report mode): " \o reason,
                     event |-> event] >>
            ELSE <<>>]

(* A getErrorMessage with another text for dns_rebinding. *)
getErrorMessage_lookupText(reason, target) ==
    CASE reason = "private_ip" -> "Private IP address " \o target \o " is not allowed"
      [] reason = "cloud_metadata" -> "Cloud metadata endpoint " \o target \o " is not allowed"
      [] reason = "invalid_domain" -> "Invalid domain " \o target
      [] reason = "dns_rebinding" -> "DNS lookup " \o target \o " is not allowed."
      [] reason = "denied_domain" -> "Domain " \o target \o " is denied by policy"
      [] reason = "denied_tld" -> "TLD of " \o target \o " is denied by policy"
      [] reason = "not_allowed_domain" -> "Domain " \o target \o " is not in the allowed list"
      [] OTHER -> "Request to " \o target \o " is not allowed"

(* A getErrorMessage that always answers with the default message. *)
getErrorMessage_generic(reason, target) == "Request to " \o target \o " is not allowed"

getErrorMessage(reason, target) ==
    CASE reason = "private_ip" -> "Private IP address " \o target \o " is not allowed"
      [] reason = "cloud_metadata" -> "Cloud metadata endpoint " \o target \o " is not allowed"
      [] reason = "invalid_domain" -> "Invalid domain " \o target
      [] reason = "dns_rebinding" -> "DNS rebinding attack detected for " \o target
      [] reason = "denied_domain" -> "Domain " \o target \o " is denied by policy"
      [] reason = "denied_tld" -> "TLD of " \o target \o " is denied by policy"
      [] reason = "not_allowed_domain" -> "Domain " \o target \o " is not in the allowed list"
      [] OTHER -> "Request to " \o target \o " is not allowed"

(* One validateHost call: what was validated and under which options. *)
Call(hostname, options) == [hostname |-> hostname, options |-> options]

(* An ipsToCheck that keeps only the first resolved address. *)
ipsToCheck_firstOnly(resolvedAddress) == <<resolvedAddress.items[1]>>

(* Array.isArray(resolvedAddress) ? resolvedAddress : [resolvedAddress] *)
ipsToCheck(resolvedAddress) ==
    IF resolvedAddress.array THEN resolvedAddress.items ELSE <<resolvedAddress.items[1]>>

(* A 'lookup' loop that goes on after destroying the socket. *)
RECURSIVE checkIps_noStop(_, _, _, _)
checkIps_noStop(options, hostname, ips, i) ==
    IF i > Len(ips)
    THEN [validated |-> <<>>, logged |-> <<>>, destroyed |-> <<>>, thrown |-> Undefined]
    ELSE IF ips[i] = "" THEN checkIps_noStop(options, hostname, ips, i + 1)
    ELSE LET ip == ips[i]
             postCheckResult == validateHostOf[ip, options]
             block == handleBlock(options, hostname, "dns_rebinding", ip, hostname)
             rest == checkIps_noStop(options, hostname, ips, i + 1)
         IN  IF ~postCheckResult.safe /\ postCheckResult.reason # Undefined
             THEN IF block.abort
                  THEN [validated |-> <<Call(ip, options)>> \o rest.validated,
                        logged |-> block.logged \o rest.logged,
                        destroyed |-> <<getErrorMessage("dns_rebinding",
                                                        hostname \o " -> " \o ip)>>
                                         \o rest.destroyed,
                        thrown |-> rest.thrown]
                  ELSE [validated |-> <<Call(ip, options)>> \o rest.validated,
                        logged |-> block.logged \o rest.logged,
                        destroyed |-> rest.destroyed,
                        thrown |-> rest.thrown]
             ELSE [validated |-> <<Call(ip, options)>> \o rest.validated,
                   logged |-> rest.logged,
                   destroyed |-> rest.destroyed,
                   thrown |-> rest.thrown]

(* A 'lookup' loop that reports the validator's own reason. *)
RECURSIVE checkIps_validatorReason(_, _, _, _)
checkIps_validatorReason(options, hostname, ips, i) ==
    IF i > Len(ips)
    THEN [validated |-> <<>>, logged |-> <<>>, destroyed |-> <<>>, thrown |-> Undefined]
    ELSE IF ips[i] = "" THEN checkIps_validatorReason(options, hostname, ips, i + 1)
    ELSE LET ip == ips[i]
             postCheckResult == validateHostOf[ip, options]
             block == handleBlock(options, hostname, postCheckResult.reason, ip, hostname)
             rest == checkIps_validatorReason(options, hostname, ips, i + 1)
         IN  IF ~postCheckResult.safe /\ postCheckResult.reason # Undefined
             THEN IF block.abort
                  THEN [validated |-> <<Call(ip, options)>>,
                        logged |-> block.logged,
                        destroyed |-> <<getErrorMessage(postCheckResult.reason,
                                                        hostname \o " -> " \o ip)>>,
                        thrown |-> Undefined]
                  ELSE [validated |-> <<Call(ip, options)>> \o rest.validated,
                        logged |-> block.logged \o rest.logged,
                        destroyed |-> rest.destroyed,
                        thrown |-> rest.thrown]
             ELSE [validated |-> <<Call(ip, options)>> \o rest.validated,
                   logged |-> rest.logged,
                   destroyed |-> rest.destroyed,
                   thrown |-> rest.thrown]

(* The for loop of the 'lookup' listener from index i on: the validateHost *)
(* calls, the logger calls and the destroy calls it makes.                 *)
RECURSIVE checkIps(_, _, _, _)
checkIps(options, hostname, ips, i) ==
    IF i > Len(ips)
    THEN [validated |-> <<>>, logged |-> <<>>, destroyed |-> <<>>, thrown |-> Undefined]
    ELSE IF ips[i] = "" THEN checkIps(options, hostname, ips, i + 1)
    ELSE LET ip == ips[i]
             postCheckResult == validateHostOf[ip, options]
             block == handleBlock(options, hostname, "dns_rebinding", ip, hostname)
             rest == checkIps(options, hostname, ips, i + 1)
         IN  IF ~postCheckResult.safe /\ postCheckResult.reason # Undefined
             THEN IF block.abort
                  THEN [validated |-> <<Call(ip, options)>>,
                        logged |-> block.logged,
                        destroyed |-> <<getErrorMessage("dns_rebinding",
                                                        hostname \o " -> " \o ip)>>,
                        thrown |-> Undefined]
                  ELSE [validated |-> <<Call(ip, options)>> \o rest.validated,
                        logged |-> block.logged \o rest.logged,
                        destroyed |-> rest.destroyed,
                        thrown |-> rest.thrown]
             ELSE [validated |-> <<Call(ip, options)>> \o rest.validated,
                   logged |-> rest.logged,
                   destroyed |-> rest.destroyed,
                   thrown |-> rest.thrown]

(* A 'lookup' listener that does not look at err. *)
lookupListener_ignoresErr(options, hostname, err, resolvedAddress) ==
    checkIps(options, hostname, ipsToCheck(resolvedAddress), 1)

(* The 'lookup' listener of one guard on one connection. *)
lookupListener(options, hostname, err, resolvedAddress) ==
    IF err # "null"
    THEN [validated |-> <<>>, logged |-> <<>>, destroyed |-> <<>>, thrown |-> Undefined]
    ELSE checkIps(options, hostname, ipsToCheck(resolvedAddress), 1)

(* options?.detectDnsRebinding === true *)
detectDnsRebinding_onlyTrue(options) == options.detectDnsRebinding = "true"

(* options?.detectDnsRebinding !== false *)
detectDnsRebinding(options) == options.detectDnsRebinding # "false"

(* A wrapper that attaches the listener without testing the client: on a *)
(* null client the attachment raises a TypeError.                        *)
RECURSIVE patchedCreateConnection_noNullCheck(_, _, _, _)
patchedCreateConnection_noNullCheck(guards, k, host, ret) ==
    IF k = 0
    THEN [validated |-> <<>>, logged |-> <<>>, thrown |-> Undefined, origCalls |-> 1,
          client |-> ret, listeners |-> <<>>]
    ELSE LET options == guards[k]
             hostname == hostnameOf(host)
             preCheckResult == validateHostOf[hostname, options]
             failed == ~preCheckResult.safe /\ preCheckResult.reason # Undefined
             block == handleBlock(options, hostname, preCheckResult.reason,
                                  Undefined, hostname)
             inner == patchedCreateConnection_noNullCheck(guards, k - 1, host, ret)
             attach == inner.thrown = Undefined /\ detectDnsRebinding(options)
         IN  IF failed /\ block.abort
             THEN [validated |-> <<Call(hostname, options)>>,
                   logged |-> block.logged,
                   thrown |-> getErrorMessage(preCheckResult.reason, hostname),
                   origCalls |-> 0, client |-> "none", listeners |-> <<>>]
             ELSE [validated |-> <<Call(hostname, options)>> \o inner.validated,
                   logged |-> (IF failed THEN block.logged ELSE <<>>) \o inner.logged,
                   thrown |-> IF attach /\ inner.client # "socket"
                              THEN "TypeError: Cannot read properties of null (reading 'on')"
                              ELSE inner.thrown,
                   origCalls |-> inner.origCalls,
                   client |-> IF attach /\ inner.client # "socket"
                              THEN "none" ELSE inner.client,
                   listeners |->
                      IF attach /\ inner.client = "socket"
                      THEN Append(inner.listeners, options)
                      ELSE inner.listeners]

(* A wrapper that calls the underlying createConnection first and *)
(* validates the host afterwards.                                  *)
RECURSIVE patchedCreateConnection_connectFirst(_, _, _, _)
patchedCreateConnection_connectFirst(guards, k, host, ret) ==
    IF k = 0
    THEN [validated |-> <<>>, logged |-> <<>>, thrown |-> Undefined, origCalls |-> 1,
          client |-> ret, listeners |-> <<>>]
    ELSE LET options == guards[k]
             hostname == hostnameOf(host)
             preCheckResult == validateHostOf[hostname, options]
             failed == ~preCheckResult.safe /\ preCheckResult.reason # Undefined
             block == handleBlock(options, hostname, preCheckResult.reason,
                                  Undefined, hostname)
             inner == patchedCreateConnection_connectFirst(guards, k - 1, host, ret)
         IN  IF failed /\ block.abort
             THEN [validated |-> inner.validated \o <<Call(hostname, options)>>,
                   logged |-> inner.logged \o block.logged,
                   thrown |-> getErrorMessage(preCheckResult.reason, hostname),
                   origCalls |-> inner.origCalls, client |-> "none", listeners |-> <<>>]
             ELSE [validated |-> inner.validated \o <<Call(hostname, options)>>,
                   logged |-> inner.logged \o (IF failed THEN block.logged ELSE <<>>),
                   thrown |-> inner.thrown,
                   origCalls |-> inner.origCalls,
                   client |-> inner.client,
                   listeners |->
                      IF /\ inner.thrown = Undefined
                         /\ detectDnsRebinding(options)
                         /\ inner.client = "socket"
                      THEN Append(inner.listeners, options)
                      ELSE inner.listeners]

(* agent.createConnection through the guards stacked on the agent, guards[k] *)
(* outermost: the validateHost and logger calls, the error thrown (if any), *)
(* how often the original createConnection ran, the value returned and the *)
(* options of the listeners attached to the returned connection.           *)
RECURSIVE patchedCreateConnection(_, _, _, _)
patchedCreateConnection(guards, k, host, ret) ==
    IF k = 0
    THEN [validated |-> <<>>, logged |-> <<>>, thrown |-> Undefined, origCalls |-> 1,
          client |-> ret, listeners |-> <<>>]
    ELSE LET options == guards[k]
             hostname == hostnameOf(host)
             preCheckResult == validateHostOf[hostname, options]
             failed == ~preCheckResult.safe /\ preCheckResult.reason # Undefined
             block == handleBlock(options, hostname, preCheckResult.reason,
                                  Undefined, hostname)
             inner == patchedCreateConnection(guards, k - 1, host, ret)
         IN  IF failed /\ block.abort
             THEN [validated |-> <<Call(hostname, options)>>,
                   logged |-> block.logged,
                   thrown |-> getErrorMessage(preCheckResult.reason, hostname),
                   origCalls |-> 0, client |-> "none", listeners |-> <<>>]
             ELSE [validated |-> <<Call(hostname, options)>> \o inner.validated,
                   logged |-> (IF failed THEN block.logged ELSE <<>>) \o inner.logged,
                   thrown |-> inner.thrown,
                   origCalls |-> inner.origCalls,
                   client |-> inner.client,
                   listeners |->
                      IF /\ inner.thrown = Undefined
                         /\ detectDnsRebinding(options)
                         /\ inner.client = "socket"
                      THEN Append(inner.listeners, options)
                      ELSE inner.listeners]

(***************************************************************************)
(* State.                                                                  *)
(*   agents        the agents created so far; guards are the options of    *)
(*                 the createConnection wrappers installed on the agent    *)
(*   patchedAgents the WeakMap of patched agents (a set of agent ids)      *)
(*   conns         the sockets returned by the original createConnection   *)
(*   guardCalls    the ssrfAgentGuard calls so far: options given, agent   *)
(*                 returned                                                *)
(*   lookups       number of 'lookup' events emitted so far                *)
(*   ops           number of operations so far                             *)
(*   last          the last operation, its inputs and what it did          *)
(***************************************************************************)
VARIABLES agents, patchedAgents, conns, guardCalls, lookups, ops, last

vars == <<agents, patchedAgents, conns, guardCalls, lookups, ops, last>>

Init ==
    /\ agents = <<>>
    /\ patchedAgents = {}
    /\ conns = <<>>
    /\ guardCalls = <<>>
    /\ lookups = 0
    /\ ops = 0
    /\ last = [op |-> "init"]

(* An allow-mode test that never succeeds. *)
isAllowMode_never(options) == FALSE

(* options?.mode === 'allow' *)
isAllowMode(options) == options.mode = "allow"

(* An ssrfAgentGuard that reuses one agent and wraps it on every call. *)
ssrfAgentGuard_restack(url, options) ==
    LET finalAgent == 1
        fresh == finalAgent > Len(agents)
        base == IF fresh
                THEN Append(agents, [family |-> createAgentFamily(url, options),
                                     guards |-> <<>>])
                ELSE agents
        patch == ~isAllowMode(options)
    IN  /\ Len(guardCalls) < MaxAgents
        /\ ops < MaxOps
        /\ ops' = ops + 1
        /\ agents' = IF patch
                     THEN [base EXCEPT ![finalAgent].guards = Append(@, options)]
                     ELSE base
        /\ patchedAgents' = IF patch THEN patchedAgents \cup {finalAgent} ELSE patchedAgents
        /\ guardCalls' = Append(guardCalls, [options |-> options, agent |-> finalAgent])
        /\ last' = [op |-> "ssrfAgentGuard", url |-> url, options |-> options,
                    agent |-> finalAgent]
        /\ UNCHANGED <<conns, lookups>>

(* ssrfAgentGuard(url, options) *)
ssrfAgentGuard(url, options) ==
    LET finalAgent == createAgent(url, options, agents)
        fresh == finalAgent > Len(agents)
        base == IF fresh
                THEN Append(agents, [family |-> createAgentFamily(url, options),
                                     guards |-> <<>>])
                ELSE agents
        patch == ~isAllowMode(options) /\ finalAgent \notin patchedAgents
    IN  /\ Len(agents) < MaxAgents
        /\ ops < MaxOps
        /\ ops' = ops + 1
        /\ agents' = IF patch
                     THEN [base EXCEPT ![finalAgent].guards = Append(@, options)]
                     ELSE base
        /\ patchedAgents' = IF patch THEN patchedAgents \cup {finalAgent} ELSE patchedAgents
        /\ guardCalls' = Append(guardCalls, [options |-> options, agent |-> finalAgent])
        /\ last' = [op |-> "ssrfAgentGuard", url |-> url, options |-> options,
                    agent |-> finalAgent]
        /\ UNCHANGED <<conns, lookups>>

(* A createConnection that remembers accepted hosts: the host of an *)
(* earlier socket goes to the underlying createConnection unchecked. *)
createConnection_cached(a, host, ret) ==
    LET seen == \E c \in 1..Len(conns) : conns[c].hostname = hostnameOf(host)
        out == IF seen
               THEN patchedCreateConnection(<<>>, 0, host, ret)
               ELSE patchedCreateConnection(agents[a].guards, Len(agents[a].guards),
                                            host, ret)
        made == out.thrown = Undefined /\ out.client = "socket"
    IN  /\ Len(conns) < MaxConns
        /\ ops < MaxOps
        /\ ops' = ops + 1
        /\ conns' = IF made
                    THEN Append(conns, [agent |-> a, hostname |-> hostnameOf(host),
                                        listeners |-> out.listeners,
                                        destroyed |-> <<>>])
                    ELSE conns
        /\ last' = [op |-> "createConnection", agent |-> a, host |-> host, ret |-> ret,
                    validated |-> out.validated, logged |-> out.logged,
                    thrown |-> out.thrown, origCalls |-> out.origCalls,
                    client |-> IF made THEN Len(conns) + 1 ELSE 0,
                    returned |-> out.client]
        /\ UNCHANGED <<agents, patchedAgents, guardCalls, lookups>>

(* agent.createConnection({host}, callback) on agent a; the underlying     *)
(* createConnection returns ret.                                           *)
createConnection(a, host, ret) ==
    LET out == patchedCreateConnection(agents[a].guards, Len(agents[a].guards), host, ret)
        made == out.thrown = Undefined /\ out.client = "socket"
    IN  /\ Len(conns) < MaxConns
        /\ ops < MaxOps
        /\ ops' = ops + 1
        /\ conns' = IF made
                    THEN Append(conns, [agent |-> a, hostname |-> hostnameOf(host),
                                        listeners |-> out.listeners,
                                        destroyed |-> <<>>])
                    ELSE conns
        /\ last' = [op |-> "createConnection", agent |-> a, host |-> host, ret |-> ret,
                    validated |-> out.validated, logged |-> out.logged,
                    thrown |-> out.thrown, origCalls |-> out.origCalls,
                    client |-> IF made THEN Len(conns) + 1 ELSE 0,
                    returned |-> out.client]
        /\ UNCHANGED <<agents, patchedAgents, guardCalls, lookups>>

(* The listeners of connection c run one after the other, from index i. *)
RECURSIVE runListeners(_, _, _, _)
runListeners(c, i, err, resolvedAddress) ==
    IF i > Len(conns[c].listeners)
    THEN [validated |-> <<>>, logged |-> <<>>, destroyed |-> <<>>, thrown |-> Undefined]
    ELSE LET one == lookupListener(conns[c].listeners[i], conns[c].hostname, err,
                                   resolvedAddress)
             rest == runListeners(c, i + 1, err, resolvedAddress)
         IN  IF one.thrown # Undefined THEN one
             ELSE [validated |-> one.validated \o rest.validated,
                   logged |-> one.logged \o rest.logged,
                   destroyed |-> one.destroyed \o rest.destroyed,
                   thrown |-> rest.thrown]

(* A 'lookup' whose listener holds the most recently created socket *)
(* instead of its own.                                             *)
emitLookup_lastClient(c, err, resolvedAddress) ==
    LET out == runListeners(c, 1, err, resolvedAddress)
    IN  /\ lookups < MaxLookups
        /\ ops < MaxOps
        /\ ops' = ops + 1
        /\ lookups' = lookups + 1
        /\ conns' = [conns EXCEPT ![Len(conns)].destroyed = @ \o out.destroyed]
        /\ last' = [op |-> "lookup", client |-> c, err |-> err,
                    resolvedAddress |-> resolvedAddress,
                    validated |-> out.validated, logged |-> out.logged,
                    destroyed |-> out.destroyed, thrown |-> out.thrown]
        /\ UNCHANGED <<agents, patchedAgents, guardCalls>>

(* The connection layer emits 'lookup' (err, resolvedAddress) on socket c. *)
emitLookup(c, err, resolvedAddress) ==
    LET out == runListeners(c, 1, err, resolvedAddress)
    IN  /\ lookups < MaxLookups
        /\ ops < MaxOps
        /\ ops' = ops + 1
        /\ lookups' = lookups + 1
        /\ conns' = [conns EXCEPT ![c].destroyed = @ \o out.destroyed]
        /\ last' = [op |-> "lookup", client |-> c, err |-> err,
                    resolvedAddress |-> resolvedAddress,
                    validated |-> out.validated, logged |-> out.logged,
                    destroyed |-> out.destroyed, thrown |-> out.thrown]
        /\ UNCHANGED <<agents, patchedAgents, guardCalls>>

Next ==
    \/ \E url \in Urls, options \in GuardOptions : ssrfAgentGuard(url, options)
    \/ \E a \in 1..Len(agents), host \in Hosts, ret \in Returns : createConnection(a, host, ret)
    \/ \E c \in 1..Len(conns), n \in Notifications : emitLookup(c, n.err, n.resolvedAddress)

Spec == Init /\ [][Next]_vars

(***************************************************************************)
(* validateHost as a function: SpecV draws a hostname and an options       *)
(* bundle and applies validateHost to them.                                *)
(***************************************************************************)
(* validateHost(ip) without options *)
DefaultOptions ==
    [mode |-> Undefined, detectDnsRebinding |-> Undefined, logger |-> Undefined,
     policy |-> NoPolicy, blockCloudMetadata |-> Undefined, metadataHosts |-> <<>>,
     protocol |-> Undefined]

InitV ==
    /\ agents = <<>>
    /\ patchedAgents = {}
    /\ conns = <<>>
    /\ guardCalls = <<>>
    /\ lookups = 0
    /\ ops = 0
    /\ last \in {[op |-> "input", hostname |-> h, options |-> o] :
                    h \in ValidatorHosts, o \in ValidatorOptions}

callValidateHost ==
    /\ last.op = "input"
    /\ last' = [op |-> "validateHost", hostname |-> last.hostname,
                options |-> last.options,
                result |-> validateHost(last.hostname, last.options)]
    /\ UNCHANGED <<agents, patchedAgents, conns, guardCalls, lookups, ops>>

NextV == callValidateHost

SpecV == InitV /\ [][NextV]_vars

(***************************************************************************)
(* The functions of the library one call at a time: SpecF draws the        *)
(* arguments of one call and applies the function to them.                 *)
(***************************************************************************)
PolicyHosts ==
    {"example.com", "api.example.com", "notexample.com", "Example.COM", "evil.com",
     "host.local", "HOST.LOCAL", "localhost", "", "trusted.org", "a.trusted.org", "LOCAL"}

Policies ==
    {NoPolicy} \cup
    [defined : {TRUE},
     allowDomains : {<<>>, <<"example.com">>, <<"*.trusted.org", "example.com">>},
     denyDomains : {<<>>, <<"example.com">>, <<"evil.com", "host.local">>},
     denyTLD : {<<>>, <<"local">>, <<"LOCAL", "Com">>}]

Patterns ==
    {"example.com", "*.example.com", "EXAMPLE.com", "*.Example.COM", "com", "local",
     "*.trusted.org", ""}

ValidateHostInputs ==
    {[op |-> "input", hostname |-> h, options |-> o] :
        h \in ValidatorHosts, o \in ValidatorOptions}

ValidatePolicyInputs ==
    {[op |-> "inputPolicy", hostname |-> h, policy |-> q] : h \in PolicyHosts, q \in Policies}

MatchesDomainInputs ==
    {[op |-> "inputMatch", hostname |-> h, pattern |-> q] : h \in PolicyHosts, q \in Patterns}

GetTLDInputs == {[op |-> "inputTLD", hostname |-> h] : h \in PolicyHosts}

callValidatePolicy ==
    /\ last.op = "inputPolicy"
    /\ last' = [op |-> "validatePolicy", hostname |-> last.hostname, policy |-> last.policy,
                result |-> validatePolicy(last.hostname, last.policy)]
    /\ UNCHANGED <<agents, patchedAgents, conns, guardCalls, lookups, ops>>

callMatchesDomain ==
    /\ last.op = "inputMatch"
    /\ last' = [op |-> "matchesDomain", hostname |-> last.hostname, pattern |-> last.pattern,
                result |-> matchesDomain(last.hostname, last.pattern)]
    /\ UNCHANGED <<agents, patchedAgents, conns, guardCalls, lookups, ops>>

callGetTLD ==
    /\ last.op = "inputTLD"
    /\ last' = [op |-> "getTLD", hostname |-> last.hostname,
                result |-> getTLD(last.hostname)]
    /\ UNCHANGED <<agents, patchedAgents, conns, guardCalls, lookups, ops>>

ConnectInputs ==
    {[op |-> "inputConnect", host |-> h, options |-> o, ret |-> r] :
        h \in ValidatorHosts \cup {Undefined}, o \in ConnectOptions, r \in Returns}

(* One createConnection call on an agent guarded with last.options. *)
callCreateConnection ==
    LET out == patchedCreateConnection(<<last.options>>, 1, last.host, last.ret)
    IN  /\ last.op = "inputConnect"
        /\ last' = [op |-> "guardedCreateConnection", host |-> last.host,
                    options |-> last.options, ret |-> last.ret,
                    validated |-> out.validated, logged |-> out.logged,
                    thrown |-> out.thrown, origCalls |-> out.origCalls,
                    returned |-> out.client, listeners |-> out.listeners]
        /\ UNCHANGED <<agents, patchedAgents, conns, guardCalls, lookups, ops>>

AgentUrls ==
    {"http://example.com", "https://example.com", "https://example.com:8443",
     "ftp://example.com", "", "https", "http", "HTTPS://example.com"}

Protocols == {Undefined, "", "https", "https:", "http", "http:", "ftp"}

CreateAgentInputs ==
    {[op |-> "inputAgent", url |-> u, options |-> [DefaultOptions EXCEPT !.protocol = q]] :
        u \in AgentUrls, q \in Protocols}

callCreateAgent ==
    /\ last.op = "inputAgent"
    /\ last' = [op |-> "createAgent", url |-> last.url, options |-> last.options,
                family |-> createAgentFamily(last.url, last.options)]
    /\ UNCHANGED <<agents, patchedAgents, conns, guardCalls, lookups, ops>>

(* Policies whose lists name IP literals and their last labels. *)
IpPolicies ==
    {[defined |-> TRUE, allowDomains |-> <<>>,
      denyDomains |-> <<"10.0.0.1", "8.8.8.8">>, denyTLD |-> <<>>],
     [defined |-> TRUE, allowDomains |-> <<>>,
      denyDomains |-> <<>>, denyTLD |-> <<"1", "8">>],
     [defined |-> TRUE, allowDomains |-> <<"10.0.0.1">>,
      denyDomains |-> <<>>, denyTLD |-> <<>>]}

IpPolicyInputs ==
    {[op |-> "input", hostname |-> IpRanges[k][1],
      options |-> [DefaultOptions EXCEPT !.policy = q]] :
        k \in 1..Len(IpRanges), q \in IpPolicies}

(* Hostnames that are not valid domain names, under policies about them. *)
InvalidHosts == {"localhost", "meta", "-bad.evil.com", ""}

SyntaxPolicies ==
    {NoPolicy, DenyPolicy, DenyMetadataPolicy, AllowPolicy,
     [defined |-> TRUE, allowDomains |-> <<"localhost", "evil.com">>,
      denyDomains |-> <<>>, denyTLD |-> <<>>]}

SyntaxInputs ==
    {[op |-> "input", hostname |-> h, options |-> [DefaultOptions EXCEPT !.policy = q]] :
        h \in InvalidHosts, q \in SyntaxPolicies}

InitF ==
    /\ agents = <<>>
    /\ patchedAgents = {}
    /\ conns = <<>>
    /\ guardCalls = <<>>
    /\ lookups = 0
    /\ ops = 0
    /\ last \in ValidateHostInputs \cup ValidatePolicyInputs \cup MatchesDomainInputs
                   \cup GetTLDInputs \cup ConnectInputs \cup CreateAgentInputs
                   \cup IpPolicyInputs \cup SyntaxInputs

NextF ==
    \/ callValidateHost
    \/ callValidatePolicy
    \/ callMatchesDomain
    \/ callGetTLD
    \/ callCreateConnection
    \/ callCreateAgent

SpecF == InitF /\ [][NextF]_vars

(***************************************************************************)
(* Vocabulary of the properties.                                           *)
(***************************************************************************)

(* The options given to the ssrfAgentGuard call that returned agent a. *)
AgentOptions(a) ==
    guardCalls[CHOOSE k \in 1..Len(guardCalls) : guardCalls[k].agent = a].options

(* mode is 'block' or unset *)
BlockMode(options) == options.mode = "block" \/ options.mode = Undefined

(* The non-empty entries of a notification that validateHost rejects. *)
Rejected(resolvedAddress, options) ==
    SelectSeq(resolvedAddress.items, LAMBDA a : a # "" /\ ~validateHostOf[a, options].safe)

RebindingMessage(hostname, ip) ==
    "DNS rebinding attack detected for " \o hostname \o " -> " \o ip

(* Level and message of every logger call of a sequence. *)
LogHeads(logged) == [k \in 1..Len(logged) |-> [level |-> logged[k].level, msg |-> logged[k].msg]]

(***************************************************************************)
(* C1  Pre-DNS abort: on an agent whose mode is 'block' or unset, a        *)
(* createConnection call whose host validateHost rejects throws, the       *)
(* original createConnection is not invoked and no socket is created.      *)
(***************************************************************************)
C1_PreDnsAbort ==
    (/\ last.op = "createConnection"
     /\ BlockMode(AgentOptions(last.agent))
     /\ ~validateHostOf[hostnameOf(last.host), AgentOptions(last.agent)].safe)
        => /\ last.thrown # Undefined
           /\ last.origCalls = 0
           /\ last.returned = "none"
           /\ last.client = 0

C1_Witness ==
    /\ last.op = "createConnection"
    /\ BlockMode(AgentOptions(last.agent))
    /\ ~validateHostOf[hostnameOf(last.host), AgentOptions(last.agent)].safe
    /\ last.thrown = "Private IP address 10.0.0.1 is not allowed"
    /\ last.origCalls = 0

(***************************************************************************)
(* C2  End-to-end safety: in block mode with detectDnsRebinding not false, *)
(* a socket that received an error-free 'lookup' and was not destroyed has *)
(* a hostname validateHost accepts and every (non-empty) address of that   *)
(* notification accepted by validateHost, whatever its position.           *)
(***************************************************************************)
C2_EndToEndSafety ==
    (/\ last.op = "lookup"
     /\ last.err = "null"
     /\ BlockMode(AgentOptions(conns[last.client].agent))
     /\ AgentOptions(conns[last.client].agent).detectDnsRebinding # "false"
     /\ conns[last.client].destroyed = <<>>)
        => LET options == AgentOptions(conns[last.client].agent)
               items == last.resolvedAddress.items
           IN  /\ validateHostOf[conns[last.client].hostname, options].safe
               /\ \A i \in 1..Len(items) :
                     items[i] # "" => validateHostOf[items[i], options].safe

C2_Witness ==
    /\ last.op = "lookup"
    /\ last.err = "null"
    /\ BlockMode(AgentOptions(conns[last.client].agent))
    /\ AgentOptions(conns[last.client].agent).detectDnsRebinding # "false"
    /\ last.resolvedAddress.array
    /\ last.resolvedAddress.items = <<"8.8.8.8", "127.0.0.1">>
    /\ conns[last.client].destroyed # <<>>

(***************************************************************************)
(* C3  Post-DNS abort outcome.  As claimed: in block mode, whenever a      *)
(* 'lookup' delivers an address ip that validateHost rejects, destroy is   *)
(* called with 'DNS rebinding attack detected for <host> -> <ip>' and      *)
(* nothing is thrown.                                                      *)
(***************************************************************************)
C3_Original ==
    (/\ last.op = "lookup"
     /\ BlockMode(AgentOptions(conns[last.client].agent))
     /\ validateHostOf[conns[last.client].hostname,
                       AgentOptions(conns[last.client].agent)].safe)
        => LET options == AgentOptions(conns[last.client].agent)
               items == last.resolvedAddress.items
           IN  /\ last.thrown = Undefined
               /\ \A i \in 1..Len(items) :
                     (items[i] # "" /\ ~validateHostOf[items[i], options].safe)
                        => \E k \in 1..Len(last.destroyed) :
                              last.destroyed[k] =
                                 RebindingMessage(conns[last.client].hostname, items[i])

(***************************************************************************)
(* C3 (amended)  In block mode with detectDnsRebinding not false, when an  *)
(* error-free 'lookup' delivers at least one non-empty address that        *)
(* validateHost rejects, destroy is called exactly once for that           *)
(* notification, with the message 'DNS rebinding attack detected for       *)
(* <host> -> <ip>' where ip is the first rejected address, and nothing is  *)
(* thrown out of the listener.                                             *)
(***************************************************************************)
C3_PostDnsAbort ==
    (/\ last.op = "lookup"
     /\ last.err = "null"
     /\ BlockMode(AgentOptions(conns[last.client].agent))
     /\ AgentOptions(conns[last.client].agent).detectDnsRebinding # "false"
     /\ Rejected(last.resolvedAddress, AgentOptions(conns[last.client].agent)) # <<>>)
        => /\ last.thrown = Undefined
           /\ last.destroyed =
                 << RebindingMessage(
                       conns[last.client].hostname,
                       Rejected(last.resolvedAddress,
                                AgentOptions(conns[last.client].agent))[1]) >>

C3_Witness ==
    /\ last.op = "lookup"
    /\ last.err = "null"
    /\ BlockMode(AgentOptions(conns[last.client].agent))
    /\ last.resolvedAddress.items = <<"127.0.0.1">>
    /\ last.destroyed = <<"DNS rebinding attack detected for example.com -> 127.0.0.1">>

(***************************************************************************)
(* C4  Report mode never aborts: on an agent created with mode 'report'    *)
(* createConnection never throws, the original createConnection always     *)
(* runs, no socket is destroyed, and with a logger every failed check is   *)
(* logged as ('warn', 'SSRF detected (report mode): <reason>').            *)
(***************************************************************************)
C4_ReportNeverAborts ==
    /\ \A c \in 1..Len(conns) :
          AgentOptions(conns[c].agent).mode = "report" => conns[c].destroyed = <<>>
    /\ (last.op = "createConnection" /\ AgentOptions(last.agent).mode = "report")
          => LET options == AgentOptions(last.agent)
                 result == validateHostOf[hostnameOf(last.host), options]
             IN  /\ last.thrown = Undefined
                 /\ last.origCalls = 1
                 /\ last.returned = last.ret
                 /\ LogHeads(last.logged) =
                       IF options.logger # Undefined /\ ~result.safe
                       THEN << [level |-> "warn",
                                msg |-> "SSRF detected (report mode): " \o result.reason] >>
                       ELSE <<>>
    /\ (last.op = "lookup" /\ AgentOptions(conns[last.client].agent).mode = "report")
          => LET options == AgentOptions(conns[last.client].agent)
                 failed == IF last.err = "null" /\ options.detectDnsRebinding # "false"
                           THEN Rejected(last.resolvedAddress, options)
                           ELSE <<>>
             IN  /\ last.thrown = Undefined
                 /\ last.destroyed = <<>>
                 /\ LogHeads(last.logged) =
                       IF options.logger # Undefined
                       THEN [k \in 1..Len(failed) |->
                               [level |-> "warn",
                                msg |-> "SSRF detected (report mode): dns_rebinding"]]
                       ELSE <<>>

C4_Witness ==
    /\ last.op = "createConnection"
    /\ AgentOptions(last.agent).mode = "report"
    /\ last.host = "10.0.0.1"
    /\ last.origCalls = 1
    /\ last.client # 0
    /\ Len(last.logged) = 1
    /\ last.logged[1].msg = "SSRF detected (report mode): private_ip"

(***************************************************************************)
(* C5  Allow mode is a passthrough: an agent created with mode 'allow' is  *)
(* unpatched, and no createConnection call or 'lookup' on it validates,    *)
(* logs, throws or destroys.                                               *)
(***************************************************************************)
C5_AllowPassthrough ==
    /\ \A a \in 1..Len(agents) :
          AgentOptions(a).mode = "allow" => agents[a].guards = <<>> /\ a \notin patchedAgents
    /\ \A c \in 1..Len(conns) :
          AgentOptions(conns[c].agent).mode = "allow"
             => conns[c].listeners = <<>> /\ conns[c].destroyed = <<>>
    /\ (last.op = "createConnection" /\ AgentOptions(last.agent).mode = "allow")
          => /\ last.validated = <<>>
             /\ last.logged = <<>>
             /\ last.thrown = Undefined
             /\ last.origCalls = 1
             /\ last.returned = last.ret
    /\ (last.op = "lookup" /\ AgentOptions(conns[last.client].agent).mode = "allow")
          => /\ last.validated = <<>>
             /\ last.logged = <<>>
             /\ last.thrown = Undefined
             /\ last.destroyed = <<>>

C5_Witness ==
    /\ last.op = "lookup"
    /\ last.err = "null"
    /\ AgentOptions(conns[last.client].agent).mode = "allow"
    /\ AgentOptions(conns[last.client].agent).logger # Undefined
    /\ conns[last.client].hostname = "10.0.0.1"
    /\ last.resolvedAddress.items = <<"169.254.169.254">>
    /\ conns[last.client].destroyed = <<>>

(***************************************************************************)
(* C6  Resolution failure is passed through: a 'lookup' that carries an    *)
(* error makes the listener call neither validateHost nor the logger nor   *)
(* destroy, in every mode and whatever value accompanies the error.        *)
(***************************************************************************)
C6_LookupErrorIgnored ==
    (last.op = "lookup" /\ last.err # "null")
        => /\ last.validated = <<>>
           /\ last.logged = <<>>
           /\ last.destroyed = <<>>
           /\ last.thrown = Undefined

C6_Witness ==
    /\ last.op = "lookup"
    /\ last.err = "Error"
    /\ last.resolvedAddress.items = <<"127.0.0.1">>
    /\ conns[last.client].listeners # <<>>
    /\ BlockMode(conns[last.client].listeners[1])
    /\ conns[last.client].destroyed = <<>>

(***************************************************************************)
(* C7  detectDnsRebinding.  As claimed: with detectDnsRebinding false no   *)
(* listener is attached; with any other value the listener is attached to  *)
(* every socket the original createConnection returned.                    *)
(***************************************************************************)
C7_Original ==
    \A c \in 1..Len(conns) :
        IF AgentOptions(conns[c].agent).detectDnsRebinding = "false"
        THEN conns[c].listeners = <<>>
        ELSE Len(conns[c].listeners) = 1

(***************************************************************************)
(* C7 (amended)  On an agent whose mode is not 'allow': with               *)
(* detectDnsRebinding false no 'lookup' listener is attached, so no        *)
(* resolved address is validated, logged or destroys the socket, and the   *)
(* pre-DNS check is the one made without the option; with                  *)
(* detectDnsRebinding absent or any other value exactly one listener is    *)
(* attached to every socket the original createConnection returned.        *)
(***************************************************************************)
C7_DetectDnsRebinding ==
    /\ \A c \in 1..Len(conns) :
          LET options == AgentOptions(conns[c].agent)
          IN  options.mode # "allow"
                 => IF options.detectDnsRebinding = "false"
                    THEN conns[c].listeners = <<>> /\ conns[c].destroyed = <<>>
                    ELSE conns[c].listeners = <<options>>
    /\ (/\ last.op = "lookup"
        /\ AgentOptions(conns[last.client].agent).detectDnsRebinding = "false")
          => /\ last.validated = <<>>
             /\ last.logged = <<>>
             /\ last.destroyed = <<>>
    /\ (/\ last.op = "createConnection"
        /\ AgentOptions(last.agent).mode # "allow"
        /\ AgentOptions(last.agent).detectDnsRebinding = "false")
          => LET options == AgentOptions(last.agent)
                 plain == [options EXCEPT !.detectDnsRebinding = Undefined]
                 result == validateHostOf[hostnameOf(last.host), plain]
                 abort == ~result.safe /\ BlockMode(plain)
             IN  /\ last.validated = <<Call(hostnameOf(last.host), options)>>
                 /\ (last.thrown # Undefined) = abort
                 /\ last.origCalls = IF abort THEN 0 ELSE 1

C7_Witness ==
    /\ last.op = "lookup"
    /\ last.err = "null"
    /\ BlockMode(AgentOptions(conns[last.client].agent))
    /\ AgentOptions(conns[last.client].agent).detectDnsRebinding = "false"
    /\ last.resolvedAddress.items = <<"127.0.0.1">>
    /\ conns[last.client].listeners = <<>>
    /\ conns[last.client].destroyed = <<>>

C9_CloudMetadataFirst ==
    (/\ last.op = "validateHost"
     /\ last.options.blockCloudMetadata # "false"
     /\ \/ last.hostname \in CLOUD_METADATA_HOSTS
        \/ \E k \in 1..Len(last.options.metadataHosts) :
              last.options.metadataHosts[k] = last.hostname)
        => last.result = [safe |-> FALSE, reason |-> "cloud_metadata"]

C9_Witness ==
    /\ last.op = "validateHost"
    /\ last.hostname = "metadata.google.internal"
    /\ last.options.blockCloudMetadata = Undefined
    /\ last.options.policy.allowDomains = <<"example.com", "metadata.google.internal">>
    /\ last.result = [safe |-> FALSE, reason |-> "cloud_metadata"]

(***************************************************************************)
(* C10  As claimed: for every IP literal ip, validateHost(ip) with default *)
(* options is {safe: false, reason: 'private_ip'} iff the range of ip is   *)
(* not 'unicast'.                                                          *)
(***************************************************************************)
C10_Original ==
    (/\ last.op = "validateHost"
     /\ last.options = DefaultOptions
     /\ isIp(last.hostname))
        => ((last.result = [safe |-> FALSE, reason |-> "private_ip"])
               <=> (range(last.hostname) # "unicast"))

(***************************************************************************)
(* C10 (amended)  For every IP literal ip outside the static metadata-host *)
(* set, validateHost(ip) with default options is                           *)
(* {safe: false, reason: 'private_ip'} iff the range of ip is not          *)
(* 'unicast' (and {safe: true} otherwise); for an IP literal of the        *)
(* metadata-host set it is {safe: false, reason: 'cloud_metadata'}.        *)
(***************************************************************************)
C10_PrivateIpIffNotUnicast ==
    (/\ last.op = "validateHost"
     /\ last.options = DefaultOptions
     /\ isIp(last.hostname))
        => IF last.hostname \in CLOUD_METADATA_HOSTS
           THEN last.result = [safe |-> FALSE, reason |-> "cloud_metadata"]
           ELSE /\ (last.result = [safe |-> FALSE, reason |-> "private_ip"])
                      <=> (range(last.hostname) # "unicast")
                /\ (last.result = [safe |-> TRUE, reason |-> Undefined])
                      <=> (range(last.hostname) = "unicast")

C10_Witness ==
    /\ last.op = "validateHost"
    /\ last.options = DefaultOptions
    /\ last.hostname = "127.0.0.1"
    /\ range(last.hostname) = "loopback"
    /\ last.result = [safe |-> FALSE, reason |-> "private_ip"]

(***************************************************************************)
(* C11  The allowlist is exclusive and authoritative: with a non-empty     *)
(* allowDomains, validatePolicy returns {safe: true} if the hostname       *)
(* matches an allowDomains entry and 'not_allowed_domain' otherwise,       *)
(* whatever denyDomains and denyTLD are.                                   *)
(***************************************************************************)
C11_AllowlistExclusive ==
    (/\ last.op = "validatePolicy"
     /\ Len(last.policy.allowDomains) > 0)
        => last.result =
              IF \E k \in 1..Len(last.policy.allowDomains) :
                    matchesDomain(last.hostname, last.policy.allowDomains[k])
              THEN [safe |-> TRUE, reason |-> Undefined]
              ELSE [safe |-> FALSE, reason |-> "not_allowed_domain"]

C11_Witness ==
    /\ last.op = "validatePolicy"
    /\ last.hostname = "example.com"
    /\ last.policy.allowDomains = <<"example.com">>
    /\ last.policy.denyDomains = <<"example.com">>
    /\ last.policy.denyTLD = <<"LOCAL", "Com">>
    /\ last.result = [safe |-> TRUE, reason |-> Undefined]

(***************************************************************************)
(* C12  Deny precedence: with allowDomains absent or empty, validatePolicy *)
(* returns 'denied_domain' if the hostname matches a denyDomains entry     *)
(* (even if its TLD is in denyTLD), else 'denied_tld' if its TLD is in     *)
(* denyTLD, else {safe: true}; a missing policy, an empty policy and a     *)
(* policy whose lists are all empty give {safe: true}.                     *)
(***************************************************************************)
C12_DenyPrecedence ==
    (/\ last.op = "validatePolicy"
     /\ Len(last.policy.allowDomains) = 0)
        => /\ last.result =
                 IF \E k \in 1..Len(last.policy.denyDomains) :
                       matchesDomain(last.hostname, last.policy.denyDomains[k])
                 THEN [safe |-> FALSE, reason |-> "denied_domain"]
                 ELSE IF \E k \in 1..Len(last.policy.denyTLD) :
                            toLowerCase(last.policy.denyTLD[k]) = getTLD(last.hostname)
                 THEN [safe |-> FALSE, reason |-> "denied_tld"]
                 ELSE [safe |-> TRUE, reason |-> Undefined]
           /\ (\/ ~last.policy.defined
               \/ /\ last.policy.denyDomains = <<>>
                  /\ last.policy.denyTLD = <<>>)
                 => last.result = [safe |-> TRUE, reason |-> Undefined]

C12_Witness ==
    /\ last.op = "validatePolicy"
    /\ last.hostname = "host.local"
    /\ last.policy.allowDomains = <<>>
    /\ last.policy.denyDomains = <<"evil.com", "host.local">>
    /\ last.policy.denyTLD = <<"local">>
    /\ last.result = [safe |-> FALSE, reason |-> "denied_domain"]

(* h is a proper subdomain of base: h ends with "." followed by base. *)
SubdomainOf(h, base) ==
    /\ Len(h) > Len(base)
    /\ SubSeq(h, Len(h) - Len(base), Len(h)) = "." \o base

(***************************************************************************)
(* C13  matchesDomain(hostname, pattern), both lowercased, is true exactly *)
(* when hostname equals pattern, or pattern is '*.base' and hostname is    *)
(* base or ends with '.base', or pattern has no '*.' prefix and hostname   *)
(* ends with '.' + pattern; a bare string suffix without a label boundary  *)
(* (notexample.com against example.com) does not match.                    *)
(***************************************************************************)
C13_MatchesDomain ==
    last.op = "matchesDomain"
        => LET h == toLowerCase(last.hostname)
               q == toLowerCase(last.pattern)
               wildcard == Len(q) >= 2 /\ SubSeq(q, 1, 2) = "*."
               base == SubSeq(q, 3, Len(q))
           IN  /\ last.result =
                     (\/ h = q
                      \/ wildcard /\ (h = base \/ SubdomainOf(h, base))
                      \/ ~wildcard /\ SubdomainOf(h, q))
               /\ (last.hostname = "notexample.com" /\ q = "example.com")
                     => last.result = FALSE

C13_Witness ==
    /\ last.op = "matchesDomain"
    /\ last.hostname = "notexample.com"
    /\ last.pattern = "EXAMPLE.com"
    /\ last.result = FALSE

(***************************************************************************)
(* C14  The TLD check is case-insensitive on both sides: getTLD returns    *)
(* the lowercased last dot-separated label (the whole label of a dot-less  *)
(* hostname, "" for the empty hostname), and where the TLD check decides   *)
(* (no allowlist, no denyDomains match) validatePolicy reports             *)
(* 'denied_tld' exactly when that label equals a lowercased denyTLD entry, *)
(* whatever the letter case of hostname and entry.                         *)
(***************************************************************************)
C14_TldCaseInsensitive ==
    /\ last.op = "getTLD"
          => LET h == toLowerCase(last.hostname)
                 tld == last.result
             IN  /\ \A i \in 1..Len(tld) : SubSeq(tld, i, i) # "."
                 /\ h = tld \/ SubdomainOf(h, tld)
                 /\ last.hostname = "HOST.LOCAL" => tld = "local"
                 /\ last.hostname = "localhost" => tld = "localhost"
                 /\ last.hostname = "" => tld = ""
    /\ (/\ last.op = "validatePolicy"
        /\ last.policy.defined
        /\ Len(last.policy.allowDomains) = 0
        /\ ~\E k \in 1..Len(last.policy.denyDomains) :
               matchesDomain(last.hostname, last.policy.denyDomains[k]))
          => ((last.result = [safe |-> FALSE, reason |-> "denied_tld"])
                 <=> \E k \in 1..Len(last.policy.denyTLD) :
                        toLowerCase(last.policy.denyTLD[k]) = getTLD(toLowerCase(last.hostname)))

C14_Witness ==
    /\ last.op = "validatePolicy"
    /\ last.hostname = "HOST.LOCAL"
    /\ last.policy.allowDomains = <<>>
    /\ last.policy.denyDomains = <<>>
    /\ last.policy.denyTLD = <<"LOCAL", "Com">>
    /\ last.result = [safe |-> FALSE, reason |-> "denied_tld"]

(***************************************************************************)
(* C15  The error thrown by a pre-DNS abort carries the message selected   *)
(* by the reason validateHost returned, with the connection's host as the  *)
(* target; the dns_rebinding message is never thrown by a pre-DNS abort.   *)
(***************************************************************************)
C15_PreDnsMessage ==
    (last.op = "guardedCreateConnection" /\ last.thrown # Undefined)
        => LET host == hostnameOf(last.host)
               reason == validateHost(host, last.options).reason
           IN  /\ reason \in {"private_ip", "cloud_metadata", "invalid_domain",
                              "denied_domain", "denied_tld", "not_allowed_domain"}
               /\ last.thrown =
                     CASE reason = "private_ip" ->
                             "Private IP address " \o host \o " is not allowed"
                       [] reason = "cloud_metadata" ->
                             "Cloud metadata endpoint " \o host \o " is not allowed"
                       [] reason = "invalid_domain" -> "Invalid domain " \o host
                       [] reason = "denied_domain" ->
                             "Domain " \o host \o " is denied by policy"
                       [] reason = "denied_tld" ->
                             "TLD of " \o host \o " is denied by policy"
                       [] reason = "not_allowed_domain" ->
                             "Domain " \o host \o " is not in the allowed list"
               /\ ~(/\ Len(last.thrown) >= 13
                    /\ SubSeq(last.thrown, 1, 13) = "DNS rebinding")

C15_Witness ==
    /\ last.op = "guardedCreateConnection"
    /\ last.host = "custom.meta"
    /\ last.options.policy = DenyMetadataPolicy
    /\ last.options.metadataHosts = <<>>
    /\ last.thrown = "TLD of custom.meta is denied by policy"

(* The logger call of one handleBlock invocation under options. *)
ExpectedLog(options, reason) ==
    IF BlockMode(options)
    THEN [level |-> "error", msg |-> "SSRF blocked: " \o reason]
    ELSE [level |-> "warn", msg |-> "SSRF detected (report mode): " \o reason]

(***************************************************************************)
(* C16  Every handleBlock invocation (one per failed check) asks for an    *)
(* abort exactly when the mode is 'block' or unset and calls the           *)
(* configured logger exactly once ('error', 'SSRF blocked: <reason>' in    *)
(* block mode, 'warn' in report mode); without a logger nothing is logged  *)
(* and every throw and destroy is decided as with a logger.                *)
(***************************************************************************)
C16_ModeActionResolver ==
    /\ (last.op = "createConnection" /\ AgentOptions(last.agent).mode # "allow")
          => LET options == AgentOptions(last.agent)
                 result == validateHostOf[hostnameOf(last.host), options]
             IN  /\ (last.thrown # Undefined) = (~result.safe /\ BlockMode(options))
                 /\ LogHeads(last.logged) =
                       IF ~result.safe /\ options.logger # Undefined
                       THEN <<ExpectedLog(options, result.reason)>>
                       ELSE <<>>
    /\ (/\ last.op = "lookup"
        /\ last.err = "null"
        /\ AgentOptions(conns[last.client].agent).mode # "allow"
        /\ AgentOptions(conns[last.client].agent).detectDnsRebinding # "false")
          => LET options == AgentOptions(conns[last.client].agent)
                 rejected == Rejected(last.resolvedAddress, options)
                 invocations == IF BlockMode(options) /\ rejected # <<>>
                                THEN 1 ELSE Len(rejected)
             IN  /\ (last.destroyed # <<>>) = (rejected # <<>> /\ BlockMode(options))
                 /\ Len(last.destroyed) <= 1
                 /\ LogHeads(last.logged) =
                       IF options.logger # Undefined
                       THEN [k \in 1..invocations |-> ExpectedLog(options, "dns_rebinding")]
                       ELSE <<>>

C16_Witness ==
    /\ last.op = "lookup"
    /\ last.err = "null"
    /\ AgentOptions(conns[last.client].agent).mode = Undefined
    /\ AgentOptions(conns[last.client].agent).logger = "fn"
    /\ last.resolvedAddress.items = <<"127.0.0.1", "169.254.169.254">>
    /\ Len(last.logged) = 1
    /\ last.logged[1].level = "error"
    /\ last.logged[1].msg = "SSRF blocked: dns_rebinding"
    /\ Len(last.destroyed) = 1

(* s begins with "https" *)
HttpsPrefix(s) == Len(s) >= 5 /\ SubSeq(s, 1, 5) = "https"

(***************************************************************************)
(* C17  As claimed: the agent is of the HTTPS family if the url argument   *)
(* or options.protocol starts with 'https', and of the HTTP family         *)
(* otherwise.                                                              *)
(***************************************************************************)
C17_Original ==
    last.op = "createAgent"
        => ((last.family = "https")
               <=> \/ HttpsPrefix(last.url)
                   \/ /\ last.options.protocol # Undefined
                      /\ HttpsPrefix(last.options.protocol))

(***************************************************************************)
(* C17 (amended)  The agent is of the HTTPS family if options.protocol,    *)
(* when present and non-empty, starts with 'https', or, when               *)
(* options.protocol is absent or empty, the url argument starts with       *)
(* 'https'; it is of the HTTP family otherwise (empty string and non-http  *)
(* schemes included).                                                      *)
(***************************************************************************)
C17_ProtocolSelection ==
    last.op = "createAgent"
        => /\ last.family \in {"http", "https"}
           /\ (last.family = "https")
                 <=> IF last.options.protocol # Undefined /\ last.options.protocol # ""
                     THEN HttpsPrefix(last.options.protocol)
                     ELSE HttpsPrefix(last.url)

C17_Witness ==
    /\ last.op = "createAgent"
    /\ last.url = "https://example.com"
    /\ last.options.protocol = "http"
    /\ last.family = "http"

(***************************************************************************)
(* C18  When the pre-DNS phase does not abort, createConnection returns    *)
(* exactly what the underlying createConnection returned (the socket, or   *)
(* null), before any 'lookup' is handled; for a null value no listener is  *)
(* attached and nothing is thrown.                                         *)
(***************************************************************************)
C18_ReturnValue ==
    last.op = "createConnection"
        => LET options == AgentOptions(last.agent)
               abort == /\ options.mode # "allow"
                        /\ BlockMode(options)
                        /\ ~validateHostOf[hostnameOf(last.host), options].safe
           IN  ~abort
                  => /\ last.thrown = Undefined
                     /\ last.origCalls = 1
                     /\ last.returned = last.ret
                     /\ last.ret = "null" => last.client = 0
                     /\ last.ret = "socket"
                           => /\ last.client = Len(conns)
                              /\ conns[last.client].destroyed = <<>>
                              /\ conns[last.client].hostname = hostnameOf(last.host)

C18_Witness ==
    /\ last.op = "createConnection"
    /\ AgentOptions(last.agent).mode = Undefined
    /\ AgentOptions(last.agent).detectDnsRebinding = Undefined
    /\ last.host = "example.com"
    /\ last.ret = "null"
    /\ last.returned = "null"
    /\ last.thrown = Undefined
    /\ last.client = 0

(***************************************************************************)
(* C19  As claimed: a createConnection call without a host, on a guarded   *)
(* agent in default (block) mode, does not throw and the underlying        *)
(* createConnection is invoked.                                            *)
(***************************************************************************)
C19_MissingHostGraceful ==
    (/\ last.op = "guardedCreateConnection"
     /\ last.host = Undefined
     /\ last.options = DefaultOptions)
        => /\ last.thrown = Undefined
           /\ last.origCalls = 1

(***************************************************************************)
(* C20  Every result of validateHost and validatePolicy with safe = false  *)
(* carries exactly one reason of BlockReason, every result with            *)
(* safe = true carries none, and the reason is never 'dns_rebinding'.      *)
(***************************************************************************)
C20_ValidationResult ==
    (last.op = "validateHost" \/ last.op = "validatePolicy")
        => /\ DOMAIN last.result = {"safe", "reason"}
           /\ last.result.safe \in BOOLEAN
           /\ ~last.result.safe
                 => /\ last.result.reason \in BlockReason
                    /\ last.result.reason # "dns_rebinding"
           /\ last.result.safe => last.result.reason = Undefined

C20_Witness ==
    /\ last.op = "validateHost"
    /\ last.hostname = "localhost"
    /\ last.options = DefaultOptions
    /\ last.result = [safe |-> FALSE, reason |-> "invalid_domain"]

(***************************************************************************)
(* C21  Post-DNS the reason given to the logger and used for the error is  *)
(* always 'dns_rebinding', whatever reason validateHost gave, and the      *)
(* BlockEvent has url = hostname = the host of the connection and ip = the *)
(* offending address; pre-DNS the BlockEvent has the validator's reason,   *)
(* url = hostname = the host, and no ip.                                   *)
(***************************************************************************)
C21_BlockEventContents ==
    /\ (last.op = "createConnection" /\ AgentOptions(last.agent).logger # Undefined)
          => LET options == AgentOptions(last.agent)
                 host == hostnameOf(last.host)
             IN  \A k \in 1..Len(last.logged) :
                    last.logged[k].event =
                       [url |-> host, reason |-> validateHostOf[host, options].reason,
                        ip |-> Undefined, hostname |-> host]
    /\ last.op = "lookup"
          => LET options == AgentOptions(conns[last.client].agent)
                 host == conns[last.client].hostname
                 rejected == Rejected(last.resolvedAddress, options)
             IN  /\ Len(last.logged) <= Len(rejected)
                 /\ \A k \in 1..Len(last.logged) :
                       last.logged[k].event =
                          [url |-> host, reason |-> "dns_rebinding",
                           ip |-> rejected[k], hostname |-> host]
                 /\ \A k \in 1..Len(last.destroyed) :
                       last.destroyed[k] = RebindingMessage(host, rejected[k])

C21_Witness ==
    /\ last.op = "lookup"
    /\ last.resolvedAddress.items = <<"169.254.169.254">>
    /\ validateHostOf["169.254.169.254",
                      AgentOptions(conns[last.client].agent)].reason = "cloud_metadata"
    /\ Len(last.logged) = 1
    /\ last.logged[1].event =
          [url |-> "example.com", reason |-> "dns_rebinding",
           ip |-> "169.254.169.254", hostname |-> "example.com"]
    /\ last.destroyed =
          <<"DNS rebinding attack detected for example.com -> 169.254.169.254">>

(***************************************************************************)
(* C22  Ordering per connection: the pre-DNS validation of the host is     *)
(* over (abort or proceed) before the underlying createConnection runs, so *)
(* an aborted call never reaches it; the listener is attached only to a    *)
(* socket the underlying createConnection returned; and resolved addresses *)
(* are validated only on such a socket, whose host was validated when it   *)
(* was created.                                                            *)
(***************************************************************************)
C22_Ordering ==
    /\ (last.op = "createConnection" /\ AgentOptions(last.agent).mode # "allow")
          => LET options == AgentOptions(last.agent)
                 host == hostnameOf(last.host)
             IN  /\ last.validated = <<Call(host, options)>>
                 /\ last.thrown # Undefined => last.origCalls = 0 /\ last.client = 0
                 /\ last.origCalls = 1
                       => validateHostOf[host, options].safe \/ ~BlockMode(options)
                 /\ last.returned # "socket" => last.client = 0
                 /\ last.client # 0
                       => /\ last.client = Len(conns)
                          /\ conns[last.client].destroyed = <<>>
    /\ \A c \in 1..Len(conns) :
          conns[c].listeners # <<>>
             => LET options == AgentOptions(conns[c].agent)
                IN  /\ conns[c].listeners = <<options>>
                    /\ validateHostOf[conns[c].hostname, options].safe \/ ~BlockMode(options)
    /\ (last.op = "lookup" /\ last.validated # <<>>)
          => /\ last.client \in 1..Len(conns)
             /\ conns[last.client].listeners # <<>>
             /\ \A k \in 1..Len(last.validated) :
                   /\ last.validated[k].options = conns[last.client].listeners[1]
                   /\ \E i \in 1..Len(last.resolvedAddress.items) :
                         last.resolvedAddress.items[i] = last.validated[k].hostname

C22_Witness ==
    /\ last.op = "lookup"
    /\ last.err = "null"
    /\ Len(last.validated) = 2
    /\ conns[last.client].hostname = "example.com"
    /\ conns[last.client].listeners # <<>>
    /\ BlockMode(AgentOptions(conns[last.client].agent))
    /\ conns[last.client].destroyed # <<>>

(***************************************************************************)
(* C23  An agent is wrapped at most once: after any sequence of            *)
(* ssrfAgentGuard calls, one createConnection call on a returned agent     *)
(* runs the pre-DNS validation once, invokes the original createConnection *)
(* once (not at all when the validation aborts) and attaches at most one   *)
(* 'lookup' listener to the socket.                                        *)
(***************************************************************************)
C23_WrappedOnce ==
    /\ \A a \in 1..Len(agents) :
          /\ Len(agents[a].guards) <= 1
          /\ (a \in patchedAgents) = (agents[a].guards # <<>>)
    /\ \A c \in 1..Len(conns) : Len(conns[c].listeners) <= 1
    /\ last.op = "createConnection"
          => /\ Len(last.validated) =
                   IF AgentOptions(last.agent).mode = "allow" THEN 0 ELSE 1
             /\ last.origCalls = IF last.thrown # Undefined THEN 0 ELSE 1
             /\ Len(last.logged) <= 1

C23_Witness ==
    /\ Len(guardCalls) = 2
    /\ guardCalls[1].options.mode # "allow"
    /\ guardCalls[2].options.mode # "allow"
    /\ last.op = "createConnection"
    /\ last.agent = guardCalls[2].agent
    /\ Len(last.validated) = 1
    /\ last.origCalls = 1
    /\ last.client # 0
    /\ Len(conns[last.client].listeners) = 1

(***************************************************************************)
(* C24  The policy is applied to non-IP hostnames only: for an IP literal  *)
(* validateHost gives the same result under every policy -- an allowlist   *)
(* never rejects a public-unicast IP and a deny list never changes the     *)
(* reason of a non-unicast one.                                            *)
(***************************************************************************)
C24_PolicySkipsIps ==
    (last.op = "validateHost" /\ isIp(last.hostname))
        => last.result =
              IF /\ last.options.blockCloudMetadata # "false"
                 /\ \/ last.hostname \in CLOUD_METADATA_HOSTS
                    \/ \E k \in 1..Len(last.options.metadataHosts) :
                          last.options.metadataHosts[k] = last.hostname
              THEN [safe |-> FALSE, reason |-> "cloud_metadata"]
              ELSE IF range(last.hostname) = "unicast"
              THEN [safe |-> TRUE, reason |-> Undefined]
              ELSE [safe |-> FALSE, reason |-> "private_ip"]

C24_Witness ==
    /\ last.op = "validateHost"
    /\ last.hostname = "8.8.8.8"
    /\ last.options.policy.allowDomains = <<"10.0.0.1">>
    /\ last.result = [safe |-> TRUE, reason |-> Undefined]

(***************************************************************************)
(* C25  For a non-IP hostname the policy check precedes the domain-syntax  *)
(* check: an invalid hostname the policy rejects gets the policy's reason, *)
(* an invalid hostname the policy accepts (one matching allowDomains       *)
(* included) gets 'invalid_domain'.                                        *)
(***************************************************************************)
C25_PolicyBeforeSyntax ==
    (/\ last.op = "validateHost"
     /\ ~isIp(last.hostname)
     /\ ~isValidDomain(last.hostname)
     /\ ~(/\ last.options.blockCloudMetadata # "false"
          /\ \/ last.hostname \in CLOUD_METADATA_HOSTS
             \/ \E k \in 1..Len(last.options.metadataHosts) :
                   last.options.metadataHosts[k] = last.hostname))
        => LET policyResult == validatePolicy(last.hostname, last.options.policy)
           IN  IF policyResult.safe
               THEN last.result = [safe |-> FALSE, reason |-> "invalid_domain"]
               ELSE /\ last.result = policyResult
                    /\ last.result.reason \in
                          {"not_allowed_domain", "denied_domain", "denied_tld"}

C25_Witness ==
    /\ last.op = "validateHost"
    /\ last.hostname = "-bad.evil.com"
    /\ ~isValidDomain(last.hostname)
    /\ last.options.policy = DenyPolicy
    /\ last.result = [safe |-> FALSE, reason |-> "denied_domain"]

(* a is one of the addresses of the notification *)
Delivered(a, resolvedAddress) ==
    \E i \in 1..Len(resolvedAddress.items) : resolvedAddress.items[i] = a

(***************************************************************************)
(* C26  Connections of one agent do not interfere: under every             *)
(* interleaving of createConnection calls and 'lookup' events, a 'lookup'  *)
(* on socket A validates A's own addresses, names A's host in its errors   *)
(* and BlockEvents, and changes no socket other than A.                    *)
(***************************************************************************)
C26_NoInterference ==
    [][last'.op = "lookup"
          => LET c == last'.client
                 host == conns[c].hostname
             IN  /\ Len(conns') = Len(conns)
                 /\ \A d \in 1..Len(conns) : d # c => conns'[d] = conns[d]
                 /\ conns'[c] = [conns[c] EXCEPT !.destroyed = @ \o last'.destroyed]
                 /\ \A k \in 1..Len(last'.validated) :
                       Delivered(last'.validated[k].hostname, last'.resolvedAddress)
                 /\ \A k \in 1..Len(last'.destroyed) :
                       \E i \in 1..Len(last'.resolvedAddress.items) :
                          last'.destroyed[k] =
                             RebindingMessage(host, last'.resolvedAddress.items[i])
                 /\ \A k \in 1..Len(last'.logged) :
                       /\ last'.logged[k].event.url = host
                       /\ last'.logged[k].event.hostname = host
                       /\ Delivered(last'.logged[k].event.ip, last'.resolvedAddress)
    ]_vars

C26_Witness ==
    /\ Len(conns) = 2
    /\ conns[1].agent = conns[2].agent
    /\ last.op = "lookup"
    /\ last.client = 1
    /\ last.resolvedAddress.items = <<"127.0.0.1">>
    /\ conns[1].destroyed = <<"DNS rebinding attack detected for example.com -> 127.0.0.1">>
    /\ conns[2].destroyed = <<>>

(* The addresses of a notification that are checked at all (non-empty). *)
Checked(resolvedAddress) == SelectSeq(resolvedAddress.items, LAMBDA a : a # "")

(* Position in seq of its first address that options reject; 0 if none. *)
FirstRejected(seq, options) ==
    IF \E i \in 1..Len(seq) : ~validateHostOf[seq[i], options].safe
    THEN CHOOSE i \in 1..Len(seq) :
            /\ ~validateHostOf[seq[i], options].safe
            /\ \A j \in 1..(i - 1) : validateHostOf[seq[j], options].safe
    ELSE 0

(***************************************************************************)
(* C27  Within one 'lookup' in block mode the addresses are checked in the *)
(* order delivered and checking stops at the first one that aborts:        *)
(* destroy is called exactly once, with the first unsafe address in its    *)
(* message, and no later address is validated or logged.                   *)
(***************************************************************************)
C27_StopAtFirstAbort ==
    (/\ last.op = "lookup"
     /\ last.err = "null"
     /\ BlockMode(AgentOptions(conns[last.client].agent))
     /\ AgentOptions(conns[last.client].agent).detectDnsRebinding # "false")
        => LET options == AgentOptions(conns[last.client].agent)
               seq == Checked(last.resolvedAddress)
               first == FirstRejected(seq, options)
               upto == IF first = 0 THEN Len(seq) ELSE first
           IN  /\ last.validated = [k \in 1..upto |-> Call(seq[k], options)]
               /\ IF first = 0
                  THEN last.destroyed = <<>> /\ last.logged = <<>>
                  ELSE /\ last.destroyed =
                             <<RebindingMessage(conns[last.client].hostname, seq[first])>>
                       /\ Len(last.logged) <= 1
                       /\ \A k \in 1..Len(last.logged) :
                             last.logged[k].event.ip = seq[first]

C27_Witness ==
    /\ last.op = "lookup"
    /\ last.err = "null"
    /\ BlockMode(AgentOptions(conns[last.client].agent))
    /\ AgentOptions(conns[last.client].agent).logger = "fn"
    /\ last.resolvedAddress.items = <<"127.0.0.1", "169.254.169.254">>
    /\ Len(last.validated) = 1
    /\ Len(last.logged) = 1
    /\ last.destroyed = <<"DNS rebinding attack detected for example.com -> 127.0.0.1">>

(***************************************************************************)
(* C28  No validation decision is carried across connections: whatever     *)
(* happened before, every createConnection call on a wrapped agent runs    *)
(* validateHost on its host and throws again for a rejected host in block  *)
(* mode, and every error-free 'lookup' on a socket with a listener runs    *)
(* validateHost on its addresses, starting with the first one.             *)
(***************************************************************************)
C28_NoCaching ==
    /\ (last.op = "createConnection" /\ AgentOptions(last.agent).mode # "allow")
          => LET options == AgentOptions(last.agent)
                 host == hostnameOf(last.host)
             IN  /\ last.validated = <<Call(host, options)>>
                 /\ (last.thrown # Undefined)
                       = (BlockMode(options) /\ ~validateHostOf[host, options].safe)
    /\ (/\ last.op = "lookup"
        /\ last.err = "null"
        /\ conns[last.client].listeners # <<>>)
          => LET options == AgentOptions(conns[last.client].agent)
                 seq == Checked(last.resolvedAddress)
                 first == FirstRejected(seq, options)
                 upto == IF first = 0 \/ ~BlockMode(options) THEN Len(seq) ELSE first
             IN  last.validated = [k \in 1..upto |-> Call(seq[k], options)]

C28_Witness ==
    /\ Len(conns) = 2
    /\ conns[1].agent = conns[2].agent
    /\ conns[1].hostname = "example.com"
    /\ conns[2].hostname = "example.com"
    /\ last.op = "createConnection"
    /\ last.client = 2
    /\ last.validated = <<Call("example.com", AgentOptions(last.agent))>>

(***************************************************************************)
(* C29  With blockCloudMetadata false the metadata check is skipped and    *)
(* the remaining checks decide alone: a metadata IP that is not unicast    *)
(* (169.254.169.254) is rejected as 'private_ip', and being in the static  *)
(* set or in metadataHosts makes no hostname unsafe by itself.             *)
(***************************************************************************)
C29_MetadataCheckDisabled ==
    (last.op = "validateHost" /\ last.options.blockCloudMetadata = "false")
        => /\ last.result.reason # "cloud_metadata"
           /\ last.result =
                 IF isIp(last.hostname)
                 THEN IF range(last.hostname) = "unicast"
                      THEN [safe |-> TRUE, reason |-> Undefined]
                      ELSE [safe |-> FALSE, reason |-> "private_ip"]
                 ELSE IF ~validatePolicy(last.hostname, last.options.policy).safe
                 THEN validatePolicy(last.hostname, last.options.policy)
                 ELSE IF isValidDomain(last.hostname)
                 THEN [safe |-> TRUE, reason |-> Undefined]
                 ELSE [safe |-> FALSE, reason |-> "invalid_domain"]
           /\ last.hostname = "169.254.169.254"
                 => last.result = [safe |-> FALSE, reason |-> "private_ip"]

C29_Witness ==
    /\ last.op = "validateHost"
    /\ last.options.blockCloudMetadata = "false"
    /\ last.options.metadataHosts = <<"custom.meta", "8.8.8.8">>
    /\ last.hostname = "169.254.169.254"
    /\ last.result = [safe |-> FALSE, reason |-> "private_ip"]

(***************************************************************************)
(* C30  As claimed: the 'lookup' listener is one-shot per socket -- the    *)
(* guard acts on at most one notification of a socket, so destroy is       *)
(* called on a socket at most once over its lifetime, however many         *)
(* notifications arrive.                                                   *)
(***************************************************************************)
C30_OneShotListener ==
    \A c \in 1..Len(conns) : Len(conns[c].destroyed) <= 1
====
